---- MODULE Spec2Model ----
\* A model of instant-acme's Order conversation (src/src/lib.rs): the nonce slot,
\* the cached OrderState, and every request an Order operation puts on the wire.
\* The ACME server and the HTTP transport are the environment: they answer every
\* request with any response (or none), and never issue a nonce twice.
EXTENDS Integers, Sequences, FiniteSets, Bags, TLC

\* ---------------------------------------------------------------- bounds

\* The server issues this many Replay-Nonce values; its later responses carry none.
MaxNonce == 3
\* The longest authorizations list a server response carries.
MaxAuthz == 2
\* The longest PKCS#8 document of a key, in bytes.
MaxDer == 3
\* The longest key_pkcs8 string of stored credentials, in characters.
MaxChars == 4

\* ---------------------------------------------------------------- values

\* Option<String>::None for the nonce slot; nonce values are 1, 2, ...
None == 0
\* Option::None for optional strings (certificate, error, Location).
NoStr == "None"

Orders == {1}

AccountId == "acct"
DirectoryUrl == "directory"
NewAccountUrl == "newAccount"
NewNonceUrl == "newNonce"
NewOrderUrl == "newOrder"
FinalizeUrl == "finalize"
CertUrl == "cert"
ChallengeUrls == {"chall"}
AuthzUrls == <<"authz1", "authz2", "authz3", "authz4">>

OrderUrl(o) == IF o = 1 THEN "order1" ELSE "order2"

OrderStatus == {"pending", "ready", "processing", "valid", "invalid"}

AuthzLists == {SubSeq(AuthzUrls, 1, n) : n \in 0..MaxAuthz}

\* OrderState as the server can report it.
OrderStates ==
    [status : OrderStatus,
     authorizations : AuthzLists,
     finalize : {FinalizeUrl},
     certificate : {NoStr, CertUrl},
     error : {NoStr, "caa"}]

\* ExternalAccountKey::id
EabId == "eab1"

\* The state field of an Order that new_order has not returned yet.
NullState ==
    [status |-> "none", authorizations |-> <<>>, finalize |-> NoStr,
     certificate |-> NoStr, error |-> NoStr]

\* A Replay-Nonce header of a response: absent, present with bytes that are not
\* UTF-8, or present with a usable value.
NoHeader == [kind |-> "absent", val |-> 0]
Headers(n) == {NoHeader, [kind |-> "bytes", val |-> n], [kind |-> "utf8", val |-> n]}

\* What is known of the answer to a request on the wire.
Pending == [kind |-> "pending", val |-> 0]
Lost == [kind |-> "lost", val |-> 0]

\* Response bodies.
NoBody == [kind |-> "none", st |-> NullState, prob |-> NoStr]
GarbageBody == [kind |-> "garbage", st |-> NullState, prob |-> NoStr]
ProblemBody == [kind |-> "problem", st |-> NullState, prob |-> "badNonce"]
ObjectBody == [kind |-> "object", st |-> NullState, prob |-> NoStr]
PemBody == [kind |-> "pem", st |-> NullState, prob |-> NoStr]
BytesBody == [kind |-> "bytes", st |-> NullState, prob |-> NoStr]
OrderBody(s) == [kind |-> "order", st |-> s, prob |-> NoStr]
DirectoryBody == [kind |-> "directory", st |-> NullState, prob |-> NoStr]

Bodies ==
    {GarbageBody, ProblemBody, ObjectBody, PemBody, BytesBody}
        \cup {OrderBody(s) : s \in OrderStates}

Statuses == {"2xx", "4xx"}
\* A Location header: absent, bytes that to_str() rejects, or a URL.
Locations(o) == {NoStr, "bytes", OrderUrl(o)}

\* The Location header of the answer to newAccount.
AccountLocations == {NoStr, "bytes", "acct", "acct2"}

NoRsp == [status |-> "none", location |-> NoStr]

\* Result<T, Error> of an operation; val names the variant.
Ok(v) == [ok |-> TRUE, val |-> v, prob |-> NoStr]
Err(v) == [ok |-> FALSE, val |-> v, prob |-> NoStr]
ErrApi(p) == [ok |-> FALSE, val |-> "Api", prob |-> p]
Running == [ok |-> FALSE, val |-> "running", prob |-> NoStr]
Cancelled == [ok |-> FALSE, val |-> "cancelled", prob |-> NoStr]

\* ------------------------------------------------------- pure functions

\* nonce_from_response: the header when present and valid UTF-8, else None.
nonce_from_responseLossy(h) == h.val
nonce_from_response(h) == IF h.kind = "utf8" THEN h.val ELSE None

\* headers().get(LOCATION).and_then(|hv| hv.to_str().ok())
location_from_response(l) == IF l = "bytes" THEN NoStr ELSE l

\* What self.nonce.take() leaves in the slot.
TakeLeavesKept(slot) == slot
TakeLeaves(slot) == None

\* Client::post asks for a fresh nonce exactly when it was handed none.
NeedsHeadAlways(n) == TRUE
NeedsHeadNever(n) == FALSE
NeedsHead(n) == n = None

\* certificate() refreshes first exactly when the cached status is processing.
NeedsRefresh(status) == status = "processing"

\* The marker CertDecision returns when certificate() goes on to fetch the chain.
Fetch == [ok |-> TRUE, val |-> "fetch", prob |-> NoStr]

\* certificate(): the checks between the optional refresh and the chain fetch.
CertDecisionStatusFirst(st) ==
    IF st.status = "processing" THEN Ok("None")
    ELSE IF st.status # "valid" THEN Err("invalid order state")
    ELSE IF st.error # NoStr THEN ErrApi(st.error)
    ELSE IF st.certificate = NoStr THEN Err("no certificate URL found")
    ELSE Fetch
CertDecisionFetchEarly(st) ==
    IF st.error # NoStr THEN ErrApi(st.error)
    ELSE IF st.status = "processing" /\ st.certificate = NoStr THEN Ok("None")
    ELSE IF st.status \notin {"valid", "processing"} THEN Err("invalid order state")
    ELSE IF st.certificate = NoStr THEN Err("no certificate URL found")
    ELSE Fetch
CertDecision(st) ==
    IF st.error # NoStr THEN ErrApi(st.error)
    ELSE IF st.status = "processing" THEN Ok("None")
    ELSE IF st.status # "valid" THEN Err("invalid order state")
    ELSE IF st.certificate = NoStr THEN Err("no certificate URL found")
    ELSE Fetch

\* Problem::from_response: a status >= 400 becomes the problem document it carries
\* (or a generic error when the body is no problem); any other response passes.
\* NoBody stands for a body the transport failed to deliver.
ProblemFromResponse(status, b) ==
    IF status = "4xx"
    THEN IF b = NoBody THEN Err("Hyper")
         ELSE IF b.kind = "problem" THEN ErrApi(b.prob)
         ELSE Err("Other")
    ELSE Ok("body")

\* Problem::check::<T>: from_response, then the body decoded as T.
ProblemCheck(T, status, b) ==
    LET r == ProblemFromResponse(status, b)
    IN  IF ~r.ok THEN r
        ELSE IF b = NoBody THEN Err("Hyper")
        ELSE IF b.kind = T THEN Ok(T)
        ELSE Err("Json")

\* String::from_utf8 of the certificate body.
Utf8Any(b) == TRUE
Utf8(b) == b.kind # "bytes"

\* self.state = Problem::check::<OrderState>(rsp).await?
StateAfterCheckClobber(old, out, b) == IF out.ok THEN b.st ELSE NullState
StateAfterCheckGuarded(old, out, b) ==
    IF out.ok /\ (old.status = "none" \/ b.st.status # "pending") THEN b.st ELSE old
StateAfterCheck(old, out, b) == IF out.ok THEN b.st ELSE old


\* ---------------------------------------------------------------- state

VARIABLES
    nonce,      \* Order.nonce: the order's nonce slot
    state,      \* Order.state: the cached OrderState
    url,        \* Order.url; NoStr while new_order has not returned the Order
    call,       \* per order, the frame of the operation running (or last run) on it
    used,       \* the bag of nonces carried by POST requests put on the wire
    nextNonce,  \* the server's next fresh Replay-Nonce value
    lastReply,  \* per order, the Replay-Nonce header answering its latest POST
    clean,      \* per order, every request so far was answered with a usable nonce
    account,    \* the Account: its id (the account URL), NoStr while there is none
    create,     \* the frame of Account::create_with_http
    trip        \* credentials on their way through from_credentials and credentials

vars ==
    <<nonce, state, url, call, used, nextNonce, lastReply, clean, account, create,
      trip>>

NoAccount == [id |-> NoStr]

\* No AccountInner yet, no AccountCredentials yet.
Nothing == [ok |-> FALSE, val |-> "nothing"]
NoCredentials == [id |-> NoStr, key_pkcs8 |-> <<>>, urls |-> NoStr]

\* No credentials under way.
NoTrip == [pc |-> "-", input |-> NoCredentials, orig |-> Nothing,
           cred |-> NoCredentials, restored |-> Nothing, again |-> NoCredentials]

\* Payloads of a signed POST.
PostAsGet == ""
EmptyObjectAsNone == ""
EmptyObject == "{}"
CsrPayload == "csr"
NewOrderPayload == "newOrder"
NewAccountPayload == "newAccount"

\* KeyOrKeyId as the protected header shows it: a kid member or a jwk member.
KeyId(id) == [jwk |-> NoStr, kid |-> id]
from_key == [jwk |-> "pub", kid |-> NoStr]

\* The protected header of a JWS.
Header(alg, key, n, u) ==
    [alg |-> alg, jwk |-> key.jwk, kid |-> key.kid, nonce |-> n, url |-> u]

\* No JWS: a request without protected header, a payload without inner JWS.
NoJws == [alg |-> "-", jwk |-> NoStr, kid |-> NoStr, nonce |-> None, url |-> NoStr]

\* impl Signer for AccountInner
AccountInnerHeader(n, u) == Header("ES256", KeyId(account.id), n, u)

\* impl Signer for Key
KeyHeaderKid(n, u) == Header("ES256", KeyId(account.id), n, u)
KeyHeader(n, u) == Header("ES256", from_key, n, u)

\* impl Signer for ExternalAccountKey
ExternalAccountKeyHeaderJwk(n, u) == Header("HS256", from_key, n, u)
ExternalAccountKeyHeader(n, u) == Header("HS256", KeyId(EabId), n, u)

\* signer.header(nonce, url) for the signer Client::post was given.
SignerHeader(signer, n, u) ==
    IF signer = "key" THEN KeyHeader(n, u) ELSE AccountInnerHeader(n, u)

\* A request without JWS: the GET of the directory, the HEAD of newNonce.
PlainReq(method, uri) ==
    [method |-> method, uri |-> uri, nonce |-> None, header |-> NoJws,
     payload |-> "-", eab |-> NoJws, reply |-> Pending]

GetReq == PlainReq("GET", DirectoryUrl)
HeadReq == PlainReq("HEAD", NewNonceUrl)

\* The header url Client::post hands to the signer for a POST to uri.
HeaderUrlFixed(uri) == NewNonceUrl
HeaderUrl(uri) == uri

\* The POST built by Client::post: the JWS of payload under the signer's header
\* for the nonce n, sent to uri. eab is the inner JWS the payload embeds.
PostReq(signer, uri, n, payload, eab) ==
    [method |-> "POST", uri |-> uri, nonce |-> n,
     header |-> SignerHeader(signer, n, HeaderUrl(uri)),
     payload |-> payload, eab |-> eab, reply |-> Pending]

\* What a call was given in answer to the request it was last seen reading (the
\* chain fetch of certificate(), the POST of new_order, the requests of account
\* creation): the status
\* class of the response, its Location header and the kind of its body; NoGot
\* while there is no such answer.
NoGot == [status |-> "none", location |-> NoStr, kind |-> "-"]

\* The frame of an operation at its start. entry is the Order as the call found it.
Frame(op, o) ==
    [op |-> op, pc |-> "idle", phase |-> "-", idx |-> 0,
     taken |-> None, uri |-> NoStr, payload |-> "-", base |-> 0,
     rsp |-> NoRsp, lnonce |-> None, lurl |-> NoStr, sent |-> <<>>,
     entry |-> [nonce |-> nonce[o], status |-> state[o].status, state |-> state[o]],
     result |-> Running, parsed |-> NullState, got |-> NoGot,
     signer |-> "account", eab |-> NoJws]

NoFrame ==
    [op |-> "none", pc |-> "idle", phase |-> "-", idx |-> 0,
     taken |-> None, uri |-> NoStr, payload |-> "-", base |-> 0,
     rsp |-> NoRsp, lnonce |-> None, lurl |-> NoStr, sent |-> <<>>,
     entry |-> [nonce |-> None, status |-> "none", state |-> NullState],
     result |-> Running, parsed |-> NullState, got |-> NoGot,
     signer |-> "account", eab |-> NoJws]

Init ==
    /\ nonce = [o \in Orders |-> None]
    /\ state = [o \in Orders |-> NullState]
    /\ url = [o \in Orders |-> NoStr]
    /\ call = [o \in Orders |-> NoFrame]
    /\ used = EmptyBag
    /\ nextNonce = 1
    /\ lastReply = [o \in Orders |-> Lost]
    /\ clean = [o \in Orders |-> TRUE]
    /\ account = [id |-> AccountId]
    /\ create = NoFrame
    /\ trip = NoTrip

\* ---------------------------------------------------------- Client::post

SendHead(c) == [c EXCEPT !.pc = "head", !.sent = Append(@, HeadReq)]

SendPost(c, n) ==
    [c EXCEPT !.pc = "post",
              !.sent = Append(@, PostReq(c.signer, c.uri, n, c.payload, c.eab))]

\* The operation returns res to its caller. The copy of the state the call began
\* with is kept for a call that failed or was cancelled, and dropped otherwise.
Finish(c, res) ==
    [c EXCEPT !.pc = "idle", !.result = res, !.rsp = NoRsp,
              !.entry.state = IF res.ok THEN NullState ELSE @]

\* Client::post from `let nonce = nonce.ok_or(..)?` on: sign, then send the POST.
\* signs is whether JoseJson::new succeeds.
SignAndSend(c, n, signs) ==
    IF n = None THEN Finish(c, Err("no nonce found"))
    ELSE IF ~signs THEN Finish(c, Err("Crypto"))
    ELSE SendPost(c, n)

\* Client::post up to its first await.
ClientPost(c, payload, n, uri, signs) ==
    LET c1 == [c EXCEPT !.taken = n, !.uri = uri, !.payload = payload,
                        !.base = Len(c.sent)]
    IN  IF NeedsHead(n) THEN SendHead(c1) ELSE SignAndSend(c1, n, signs)

\* The last request of the frame, answered with header h.
Answered(c, h) == [c EXCEPT !.sent[Len(c.sent)].reply = h]

\* The step of order o ends in frame c; good is whether the step kept the
\* conversation free of lost requests, unusable nonces and abandoned attempts.
Commit(o, c, good) ==
    /\ call' = [call EXCEPT ![o] = c]
    /\ used' = IF c.pc = "post"
               THEN used (+) SetToBag({c.sent[Len(c.sent)].nonce})
               ELSE used
    /\ clean' = [clean EXCEPT ![o] = @ /\ good]
    /\ lastReply' =
         IF c.pc = "post" THEN [lastReply EXCEPT ![o] = Pending]
         ELSE IF call[o].pc = "post"
         THEN [lastReply EXCEPT ![o] = c.sent[Len(c.sent)].reply]
         ELSE lastReply
    /\ UNCHANGED <<account, create, trip>>

\* Whether frame c stopped before any response to the attempt it was making.
Aborted(c) == c.pc = "idle" /\ c.result.val \in {"no nonce found", "Crypto", "Hyper"}

\* An operation can start on an idle order while there is a nonce for it: in the
\* slot, or still to be issued by the server.
CanStart(o) == call[o].pc = "idle" /\ (nextNonce <= MaxNonce \/ nonce[o] # None)

\* self.account.post(payload, self.nonce.take(), uri), up to its first await.
StartPost(o, c, payload, uri) ==
    \E signs \in BOOLEAN :
        LET c2 == ClientPost(c, payload, nonce[o], uri, signs)
        IN  /\ Commit(o, c2, ~Aborted(c2))
            /\ nonce' = [nonce EXCEPT ![o] = TakeLeaves(@)]

\* ----------------------------------------------------------- operations

\* The nonce Account::new_order hands to post: none, whatever the slots hold.
NewOrderNonceStored == nonce[1]
NewOrderNonce == None

\* Account::new_order, up to the HEAD newNonce its post(.., None, ..) makes.
NewOrder(o) ==
    /\ account # NoAccount
    /\ url[o] = NoStr
    /\ CanStart(o)
    /\ \E signs \in BOOLEAN :
        LET c2 == ClientPost(Frame("new_order", o), NewOrderPayload, NewOrderNonce,
                             NewOrderUrl, signs)
        IN  /\ call' = [call EXCEPT ![o] = c2]
            /\ used' = IF c2.pc = "post"
                       THEN used (+) SetToBag({c2.sent[Len(c2.sent)].nonce})
                       ELSE used
    /\ clean' = [clean EXCEPT ![o] = TRUE]
    /\ lastReply' = [lastReply EXCEPT ![o] = Lost]
    /\ UNCHANGED <<nonce, state, url, nextNonce, account, create, trip>>

\* Order::authorizations, up to the first fetch.
Authorizations(o) ==
    /\ url[o] # NoStr
    /\ CanStart(o)
    /\ LET c == Frame("authorizations", o)
           auths == state[o].authorizations
       IN  IF auths = <<>>
           THEN Commit(o, Finish(c, Ok("vec")), TRUE) /\ UNCHANGED nonce
           ELSE StartPost(o, [c EXCEPT !.idx = 1], PostAsGet, auths[1])
    /\ UNCHANGED <<state, url, nextNonce>>

\* Order::challenge
Challenge(o) ==
    /\ url[o] # NoStr
    /\ CanStart(o)
    /\ \E cu \in ChallengeUrls : StartPost(o, Frame("challenge", o), PostAsGet, cu)
    /\ UNCHANGED <<state, url, nextNonce>>

\* Order::set_challenge_ready
SetChallengeReady(o) ==
    /\ url[o] # NoStr
    /\ CanStart(o)
    /\ \E cu \in ChallengeUrls :
        StartPost(o, Frame("set_challenge_ready", o), EmptyObject, cu)
    /\ UNCHANGED <<state, url, nextNonce>>

\* Order::refresh
Refresh(o) ==
    /\ url[o] # NoStr
    /\ CanStart(o)
    /\ StartPost(o, Frame("refresh", o), PostAsGet, url[o])
    /\ UNCHANGED <<state, url, nextNonce>>

\* Order::finalize
Finalize(o) ==
    /\ url[o] # NoStr
    /\ CanStart(o)
    /\ StartPost(o, Frame("finalize", o), CsrPayload, state[o].finalize)
    /\ UNCHANGED <<state, url, nextNonce>>

\* Order::key_authorization: KeyAuthorization::new(challenge, &self.account.key),
\* a value computed from the token and the key's thumbprint, without await.
KeyAuthorization(o) ==
    /\ url[o] # NoStr
    /\ call[o].pc = "idle"
    /\ call' = [call EXCEPT ![o] = Finish(Frame("key_authorization", o),
                                          Ok("KeyAuthorization"))]
    /\ UNCHANGED <<nonce, state, url, used, nextNonce, lastReply, clean,
                   account, create, trip>>

\* certificate() from its checks on: return, or start fetching the chain.
Decide(o, c, st) ==
    LET dec == CertDecision(st)
    IN  IF dec = Fetch
        THEN StartPost(o, [c EXCEPT !.phase = "chain"], PostAsGet, st.certificate)
        ELSE Commit(o, Finish(c, dec), TRUE) /\ UNCHANGED nonce

\* Order::certificate, up to its first await or its return.
Certificate(o) ==
    /\ url[o] # NoStr
    /\ CanStart(o)
    /\ LET c == Frame("certificate", o)
       IN  IF NeedsRefresh(state[o].status)
           THEN StartPost(o, [c EXCEPT !.phase = "refresh"], PostAsGet, url[o])
           ELSE Decide(o, c, state[o])
    /\ UNCHANGED <<state, url, nextNonce>>

\* ---------------------------------------------------------- continuations

\* The Replay-Nonce headers a response can carry now.
ServerHeaders == IF nextNonce <= MaxNonce THEN Headers(nextNonce) ELSE {NoHeader}

Issue(h) == nextNonce' = IF h.kind = "absent" THEN nextNonce ELSE nextNonce + 1

\* The HEAD newNonce of Client::post completes.
HeadResponse(o) ==
    LET c == call[o]
    IN  /\ c.pc = "head"
        /\ \/ /\ Commit(o, Finish(Answered(c, Lost), Err("Hyper")), FALSE)
              /\ UNCHANGED nextNonce
           \/ \E h \in ServerHeaders, signs \in BOOLEAN :
                LET c2 == SignAndSend(Answered(c, h), nonce_from_response(h), signs)
                IN  Commit(o, c2, c2.pc = "post") /\ Issue(h)
        /\ UNCHANGED <<nonce, state, url>>

\* The POST of Client::post completes; the caller stores the nonce of the
\* response and starts reading the body.
PostResponse(o) ==
    LET c == call[o]
    IN  /\ c.pc = "post"
        /\ \/ /\ Commit(o, Finish(Answered(c, Lost), Err("Hyper")), FALSE)
              /\ UNCHANGED <<nonce, nextNonce>>
           \/ \E h \in ServerHeaders, status \in Statuses,
                 loc \in (IF c.op = "new_order" THEN Locations(o) ELSE {NoStr}) :
                LET n == nonce_from_response(h)
                    c1 == [Answered(c, h) EXCEPT
                              !.pc = "body",
                              !.rsp = [status |-> status, location |-> loc]]
                IN  /\ Issue(h)
                    /\ IF c.op = "new_order"
                       THEN /\ Commit(o, [c1 EXCEPT
                                             !.lnonce = n,
                                             !.lurl = location_from_response(loc)],
                                      n # None)
                            /\ UNCHANGED nonce
                       ELSE /\ Commit(o, c1, n # None)
                            /\ nonce' = [nonce EXCEPT ![o] = n]
        /\ UNCHANGED <<state, url>>

\* AccountInner::get after its post: Problem::check of the response.
ReadObject(o, c, b) ==
    LET out == ProblemCheck("object", c.rsp.status, b)
    IN  /\ Commit(o, Finish(c, IF out.ok /\ c.op = "set_challenge_ready"
                               THEN Ok("unit") ELSE out), TRUE)
        /\ UNCHANGED <<nonce, state, url>>

\* for url in &self.state.authorizations: the place of the URL after the idx-th,
\* 0 when the loop is over.
NextFetchOnlyFirst(idx, auths) == 0
NextFetch(idx, auths) == IF idx < Len(auths) THEN idx + 1 ELSE 0

\* Order::authorizations: one fetch is decoded; push it and fetch the next URL.
ReadAuthorization(o, c, b) ==
    LET out == ProblemCheck("object", c.rsp.status, b)
        auths == state[o].authorizations
        next == NextFetch(c.idx, auths)
    IN  /\ IF ~out.ok
           THEN Commit(o, Finish(c, out), TRUE) /\ UNCHANGED nonce
           ELSE IF next # 0
           THEN StartPost(o, [c EXCEPT !.idx = next, !.rsp = NoRsp],
                          PostAsGet, auths[next])
           ELSE Commit(o, Finish(c, Ok("vec")), TRUE) /\ UNCHANGED nonce
        /\ UNCHANGED <<state, url>>

\* Order::refresh and Order::finalize: the response is decoded into self.state.
ReadOrderState(o, c, b) ==
    LET out == ProblemCheck("order", c.rsp.status, b)
        c1 == IF out.ok THEN [c EXCEPT !.parsed = b.st] ELSE c
    IN  /\ state' = [state EXCEPT ![o] = StateAfterCheck(@, out, b)]
        /\ Commit(o, Finish(c1, IF ~out.ok THEN out
                                ELSE IF c.op = "refresh" THEN Ok("state")
                                ELSE Ok("unit")), TRUE)
        /\ UNCHANGED <<nonce, url>>

\* Order::certificate: the refresh is decoded into self.state, then the checks.
ReadCertRefresh(o, c, b) ==
    LET out == ProblemCheck("order", c.rsp.status, b)
        st == StateAfterCheck(state[o], out, b)
        c1 == IF out.ok THEN [c EXCEPT !.parsed = b.st, !.rsp = NoRsp] ELSE c
    IN  /\ state' = [state EXCEPT ![o] = st]
        /\ IF out.ok
           THEN Decide(o, c1, st)
           ELSE Commit(o, Finish(c, out), TRUE) /\ UNCHANGED nonce
        /\ UNCHANGED url

\* Order::certificate: the chain is read and decoded as UTF-8.
ReadChain(o, c, b) ==
    LET r == ProblemFromResponse(c.rsp.status, b)
        res == IF ~r.ok THEN r
               ELSE IF b = NoBody THEN Err("Hyper")
               ELSE IF Utf8(b) THEN Ok("Some")
               ELSE Err("unable to decode certificate as UTF-8")
        c1 == [c EXCEPT !.got = [status |-> c.rsp.status, location |-> NoStr,
                                 kind |-> b.kind]]
    IN  /\ Commit(o, Finish(c1, res), TRUE)
        /\ UNCHANGED <<nonce, state, url>>

\* The fields of the Order literal of new_order in the order they are evaluated:
\* state (Problem::check, with `?`) before url (ok_or, with `?`).
NewOrderResultUrlFirst(out, lurl) ==
    IF lurl = NoStr THEN Err("no order URL found")
    ELSE IF ~out.ok THEN out
    ELSE Ok("order")
NewOrderResult(out, lurl) ==
    IF ~out.ok THEN out
    ELSE IF lurl = NoStr THEN Err("no order URL found")
    ELSE Ok("order")

\* Account::new_order: the Order is built from the response.
ReadNewOrder(o, c, b) ==
    LET out == ProblemCheck("order", c.rsp.status, b)
        res == NewOrderResult(out, c.lurl)
        c1 == [c EXCEPT !.got = [status |-> c.rsp.status,
                                 location |-> c.rsp.location, kind |-> b.kind]]
    IN  IF ~res.ok
        THEN Commit(o, Finish(c1, res), TRUE) /\ UNCHANGED <<nonce, state, url>>
        ELSE /\ Commit(o, Finish([c1 EXCEPT !.parsed = b.st], res), TRUE)
             /\ nonce' = [nonce EXCEPT ![o] = c.lnonce]
             /\ state' = [state EXCEPT ![o] = b.st]
             /\ url' = [url EXCEPT ![o] = c.lurl]

\* The body of the response arrives, one of B, and the operation goes on.
BodyReadFrom(o, B) ==
    LET c == call[o]
    IN  /\ c.pc = "body"
        /\ \E b \in B :
            CASE c.op \in {"challenge", "set_challenge_ready"} -> ReadObject(o, c, b)
              [] c.op = "authorizations" -> ReadAuthorization(o, c, b)
              [] c.op \in {"refresh", "finalize"} -> ReadOrderState(o, c, b)
              [] c.op = "certificate" /\ c.phase = "refresh" -> ReadCertRefresh(o, c, b)
              [] c.op = "certificate" /\ c.phase = "chain" -> ReadChain(o, c, b)
              [] c.op = "new_order" -> ReadNewOrder(o, c, b)
        /\ UNCHANGED nextNonce

\* The body of the response arrives (or fails to) and the operation goes on.
BodyRead(o) == BodyReadFrom(o, Bodies \cup {NoBody})

\* The caller drops the operation's future at an await.
Cancel(o) ==
    LET c == call[o]
    IN  /\ c.pc \in {"head", "post", "body"}
        /\ Commit(o, Finish(c, Cancelled), FALSE)
        /\ UNCHANGED <<nonce, state, url, nextNonce>>

\* ------------------------------------------------------ account creation

OrderVars == <<nonce, state, url, call, lastReply, clean>>

\* Account::create_with_http, up to the GET of the directory in Client::new.
\* phase tells whether an ExternalAccountKey was given.
CreateAccount ==
    /\ account = NoAccount
    /\ create.pc = "idle"
    /\ nextNonce <= MaxNonce
    /\ \E phase \in {"eab", "-"} :
        create' = [NoFrame EXCEPT !.op = "create", !.pc = "dir", !.phase = phase,
                                  !.signer = "key", !.sent = <<GetReq>>]
    /\ UNCHANGED <<OrderVars, used, nextNonce, account, trip>>

\* The bodies a directory URL answers with.
DirectoryBodies == {NoBody, GarbageBody, DirectoryBody}

\* The external_account_binding of the payload: the inner JWS when a key is given.
ExternalAccountBinding(phase) ==
    IF phase = "eab" THEN ExternalAccountKeyHeader(None, NewAccountUrl) ELSE NoJws

\* Client::new from the answer to its GET on, then create_inner up to the HEAD
\* newNonce of its post. keyOk is whether Key::generate succeeds, signs whether
\* the JoseJson::new of the binding does.
DirectoryResponse ==
    /\ create.pc = "dir"
    /\ \/ create' = Finish(Answered(create, Lost), Err("Hyper"))
       \/ \E b \in DirectoryBodies, keyOk \in BOOLEAN, signs \in BOOLEAN :
            LET c == [Answered(create, NoHeader) EXCEPT
                         !.got = [status |-> "dir", location |-> NoStr, kind |-> b.kind]]
            IN  create' =
                  IF b = NoBody THEN Finish(c, Err("Hyper"))
                  ELSE IF b.kind # "directory" THEN Finish(c, Err("Json"))
                  ELSE IF ~keyOk THEN Finish(c, Err("Crypto"))
                  ELSE IF c.phase = "eab" /\ ~signs THEN Finish(c, Err("Crypto"))
                  ELSE ClientPost([c EXCEPT !.eab = ExternalAccountBinding(c.phase)],
                                  NewAccountPayload, None, NewAccountUrl, signs)
    /\ UNCHANGED <<OrderVars, used, nextNonce, account, trip>>

\* create_inner: the HEAD newNonce of its post completes.
CreateHeadResponse ==
    /\ create.pc = "head"
    /\ \/ /\ create' = Finish(Answered(create, Lost), Err("Hyper"))
          /\ UNCHANGED <<used, nextNonce>>
       \/ \E h \in ServerHeaders, signs \in BOOLEAN :
            LET c2 == SignAndSend(Answered(create, h), nonce_from_response(h), signs)
            IN  /\ create' = c2
                /\ used' = IF c2.pc = "post"
                           THEN used (+) SetToBag({c2.sent[Len(c2.sent)].nonce})
                           ELSE used
                /\ Issue(h)
    /\ UNCHANGED <<OrderVars, account, trip>>

\* create_inner: the POST to newAccount completes; the Location is kept.
CreatePostResponse ==
    /\ create.pc = "post"
    /\ \/ /\ create' = Finish(Answered(create, Lost), Err("Hyper"))
          /\ UNCHANGED nextNonce
       \/ \E h \in ServerHeaders, status \in Statuses, loc \in AccountLocations :
            /\ create' = [Answered(create, h) EXCEPT
                             !.pc = "body",
                             !.rsp = [status |-> status, location |-> loc],
                             !.lurl = location_from_response(loc)]
            /\ Issue(h)
    /\ UNCHANGED <<OrderVars, used, account, trip>>

\* The id of the Account create_inner builds from the Location it kept.
AccountUrlFixed(lurl) == AccountId
AccountUrl(lurl) == lurl

\* create_inner from Problem::from_response on: the Account, or an error.
CreateBodyRead ==
    /\ create.pc = "body"
    /\ \E b \in {NoBody, ProblemBody, ObjectBody} :
        LET r == ProblemFromResponse(create.rsp.status, b)
            res == IF ~r.ok THEN r
                   ELSE IF create.lurl = NoStr THEN Err("failed to get account URL")
                   ELSE Ok("account")
            c1 == [create EXCEPT
                      !.got = [status |-> create.rsp.status,
                               location |-> create.rsp.location, kind |-> b.kind]]
        IN  /\ create' = Finish(c1, res)
            /\ account' = IF res.ok THEN [id |-> AccountUrl(create.lurl)] ELSE account
    /\ UNCHANGED <<OrderVars, used, nextNonce, trip>>

Next ==
    \E o \in Orders :
        \/ NewOrder(o)
        \/ Authorizations(o)
        \/ Challenge(o)
        \/ SetChallengeReady(o)
        \/ Refresh(o)
        \/ Finalize(o)
        \/ Certificate(o)
        \/ KeyAuthorization(o)
        \/ HeadResponse(o)
        \/ PostResponse(o)
        \/ BodyRead(o)
        \/ Cancel(o)

Spec == Init /\ [][Next]_vars

\* The bodies the server answers with in the smaller conversations.
TwoBodies ==
    {ProblemBody, ObjectBody,
     OrderBody([status |-> "processing", authorizations |-> <<AuthzUrls[1]>>,
                finalize |-> FinalizeUrl, certificate |-> NoStr, error |-> NoStr]),
     OrderBody([status |-> "valid", authorizations |-> <<AuthzUrls[1]>>,
                finalize |-> FinalizeUrl, certificate |-> CertUrl, error |-> NoStr])}

\* An account is created, then an order on it.
InitAccount ==
    /\ nonce = [o \in Orders |-> None]
    /\ state = [o \in Orders |-> NullState]
    /\ url = [o \in Orders |-> NoStr]
    /\ call = [o \in Orders |-> NoFrame]
    /\ used = EmptyBag
    /\ nextNonce = 1
    /\ lastReply = [o \in Orders |-> Lost]
    /\ clean = [o \in Orders |-> TRUE]
    /\ account = NoAccount
    /\ create = NoFrame
    /\ trip = NoTrip

NextAccount ==
    \/ CreateAccount
    \/ DirectoryResponse
    \/ CreateHeadResponse
    \/ CreatePostResponse
    \/ CreateBodyRead
    \/ \E o \in Orders :
        \/ NewOrder(o)
        \/ Refresh(o)
        \/ SetChallengeReady(o)
        \/ HeadResponse(o)
        \/ PostResponse(o)
        \/ BodyReadFrom(o, TwoBodies)

SpecAccount == InitAccount /\ [][NextAccount]_vars

\* Two Orders created from the same Account, their operations interleaved at
\* every await.
TwoOrders == {1, 2}

InitTwo ==
    /\ nonce = [o \in TwoOrders |-> None]
    /\ state = [o \in TwoOrders |-> NullState]
    /\ url = [o \in TwoOrders |-> NoStr]
    /\ call = [o \in TwoOrders |-> NoFrame]
    /\ used = EmptyBag
    /\ nextNonce = 1
    /\ lastReply = [o \in TwoOrders |-> Lost]
    /\ clean = [o \in TwoOrders |-> TRUE]
    /\ account = [id |-> AccountId]
    /\ create = NoFrame
    /\ trip = NoTrip

NextTwo ==
    \E o \in TwoOrders :
        \/ NewOrder(o)
        \/ SetChallengeReady(o)
        \/ Refresh(o)
        \/ Certificate(o)
        \/ HeadResponse(o)
        \/ PostResponse(o)
        \/ BodyReadFrom(o, TwoBodies)
        \/ Cancel(o)

SpecTwo == InitTwo /\ [][NextTwo]_vars

\* ----------------------------------------------------------- credentials

\* Bytes of a PKCS#8 document; 48 is the tag of a DER SEQUENCE.
DerBytes == {0, 48, 255}

RECURSIVE SeqsUpTo(_, _)
\* The sequences over S of length at most n.
SeqsUpTo(S, n) ==
    IF n = 0 THEN {<<>>}
    ELSE LET shorter == SeqsUpTo(S, n - 1)
         IN  shorter \cup {Append(q, x) : q \in shorter, x \in S}

Ders == SeqsUpTo(DerBytes, MaxDer)

\* Characters of a stored key_pkcs8, by their place in the URL-safe alphabet;
\* 64 is a character outside of it.
NotInAlphabet == 64
StoredChars == {0, 1, 12, NotInAlphabet}

RECURSIVE Encode(_)
\* BASE64_URL_SAFE_NO_PAD.encode
Encode(b) ==
    IF Len(b) = 0 THEN <<>>
    ELSE IF Len(b) = 1 THEN <<b[1] \div 4, (b[1] % 4) * 16>>
    ELSE IF Len(b) = 2
    THEN <<b[1] \div 4, (b[1] % 4) * 16 + b[2] \div 16, (b[2] % 16) * 4>>
    ELSE <<b[1] \div 4, (b[1] % 4) * 16 + b[2] \div 16,
           (b[2] % 16) * 4 + b[3] \div 64, b[3] % 64>>
             \o Encode(SubSeq(b, 4, Len(b)))

RECURSIVE DecodeChars(_)
\* The bytes of characters of the alphabet whose last group is canonical.
DecodeChars(c) ==
    IF Len(c) = 0 THEN <<>>
    ELSE IF Len(c) = 2 THEN <<c[1] * 4 + c[2] \div 16>>
    ELSE IF Len(c) = 3
    THEN <<c[1] * 4 + c[2] \div 16, (c[2] % 16) * 16 + c[3] \div 4>>
    ELSE <<c[1] * 4 + c[2] \div 16, (c[2] % 16) * 16 + c[3] \div 4,
           (c[3] % 4) * 64 + c[4]>>
             \o DecodeChars(SubSeq(c, 5, Len(c)))

\* BASE64_URL_SAFE_NO_PAD.decode: no character outside the alphabet, no padding,
\* no length of 1 mod 4, no bits left over in the last character.
Decode(c) ==
    LET n == Len(c)
    IN  IF \/ \E i \in 1..n : c[i] \notin 0..63
           \/ n % 4 = 1
           \/ n % 4 = 2 /\ c[n] % 16 # 0
           \/ n % 4 = 3 /\ c[n] % 4 # 0
        THEN [ok |-> FALSE, val |-> "Base64"]
        ELSE [ok |-> TRUE, val |-> DecodeChars(c)]

\* EcdsaKeyPair::from_pkcs8: a document is one SEQUENCE holding the private key.
EcdsaFromPkcs8(der) ==
    IF Len(der) >= 2 /\ der[1] = 48
    THEN [ok |-> TRUE, val |-> Tail(der)]
    ELSE [ok |-> FALSE, val |-> "CryptoKey"]

RECURSIVE Sum(_)
Sum(q) == IF q = <<>> THEN 0 ELSE q[1] + Sum(Tail(q))

\* Jwk::thumb_sha256: a digest of the public key, here one byte of it.
thumb_sha256(key) == <<(Sum(key) + Len(key)) % 256>>

\* Key::from_pkcs8_der
from_pkcs8_der(pkcs8_der) ==
    LET key == EcdsaFromPkcs8(pkcs8_der)
    IN  IF ~key.ok THEN key
        ELSE [ok |-> TRUE,
              val |-> [inner |-> key.val, pkcs8_der |-> pkcs8_der,
                       thumb |-> Encode(thumb_sha256(key.val))]]

\* Key::generate, for the document generate_pkcs8 drew.
generate(pkcs8) ==
    LET key == EcdsaFromPkcs8(pkcs8)
    IN  IF ~key.ok THEN key
        ELSE [ok |-> TRUE,
              val |-> [inner |-> key.val, pkcs8_der |-> pkcs8,
                       thumb |-> Encode(thumb_sha256(key.val))]]

\* AccountInner::from_credentials
from_credentials(credentials) ==
    LET der == Decode(credentials.key_pkcs8)
        key == from_pkcs8_der(der.val)
    IN  IF ~der.ok THEN der
        ELSE IF ~key.ok THEN key
        ELSE [ok |-> TRUE,
              val |-> [key |-> key.val, urls |-> credentials.urls,
                       id |-> credentials.id]]

\* AccountInner::credentials
credentialsRaw(inner) ==
    [id |-> inner.id, key_pkcs8 |-> inner.key.pkcs8_der, urls |-> inner.urls]
credentials(inner) ==
    [id |-> inner.id, key_pkcs8 |-> Encode(inner.key.pkcs8_der), urls |-> inner.urls]

\* DirectoryUrls of two servers.
Directories ==
    {[new_nonce |-> NewNonceUrl, new_account |-> NewAccountUrl, new_order |-> o]
        : o \in {NewOrderUrl, "newOrder2"}}

\* The AccountCredentials a caller can have stored.
StoredCredentials ==
    [id : {"acct", "acct2"},
     key_pkcs8 : SeqsUpTo(StoredChars, MaxChars) \cup {Encode(d) : d \in Ders},
     urls : Directories]

Rest == <<nonce, state, url, call, used, nextNonce, lastReply, clean, account, create>>

\* Account::from_credentials_and_http on stored credentials.
FromCredentials ==
    /\ trip.pc = "input"
    /\ trip' = [trip EXCEPT !.pc = "orig", !.orig = from_credentials(trip.input)]
    /\ UNCHANGED Rest

\* An account as Account::create_inner builds it, with a generated key.
Generated ==
    /\ trip.pc = "input"
    /\ \E pkcs8 \in {d \in Ders : EcdsaFromPkcs8(d).ok} :
        trip' = [NoTrip EXCEPT
                    !.pc = "orig",
                    !.orig = [ok |-> TRUE,
                              val |-> [key |-> generate(pkcs8).val,
                                       urls |-> trip.input.urls,
                                       id |-> trip.input.id]]]
    /\ UNCHANGED Rest

\* Account::credentials
Credentials ==
    /\ trip.pc = "orig" /\ trip.orig.ok
    /\ trip' = [trip EXCEPT !.pc = "cred", !.cred = credentials(trip.orig.val)]
    /\ UNCHANGED Rest

\* Account::from_credentials_and_http on the credentials of the account.
FromCredentialsAgain ==
    /\ trip.pc = "cred"
    /\ trip' = [trip EXCEPT !.pc = "restored", !.restored = from_credentials(trip.cred)]
    /\ UNCHANGED Rest

\* Account::credentials of the restored account.
CredentialsAgain ==
    /\ trip.pc = "restored" /\ trip.restored.ok
    /\ trip' = [trip EXCEPT !.pc = "again", !.again = credentials(trip.restored.val)]
    /\ UNCHANGED Rest

InitCredentials ==
    /\ nonce = [o \in Orders |-> None]
    /\ state = [o \in Orders |-> NullState]
    /\ url = [o \in Orders |-> NoStr]
    /\ call = [o \in Orders |-> NoFrame]
    /\ used = EmptyBag
    /\ nextNonce = 1
    /\ lastReply = [o \in Orders |-> Lost]
    /\ clean = [o \in Orders |-> TRUE]
    /\ account = NoAccount
    /\ create = NoFrame
    /\ trip \in {[NoTrip EXCEPT !.pc = "input", !.input = c] : c \in StoredCredentials}

NextCredentials ==
    \/ FromCredentials
    \/ Generated
    \/ Credentials
    \/ FromCredentialsAgain
    \/ CredentialsAgain

SpecCredentials == InitCredentials /\ [][NextCredentials]_vars

\* ------------------------------------------------------------ vocabulary

OrderOps ==
    {"authorizations", "challenge", "set_challenge_ready", "refresh", "finalize",
     "certificate"}

\* An Order operation on o has returned a result to its caller.
Returned(o) ==
    /\ call[o].op \in OrderOps
    /\ call[o].pc = "idle"
    /\ call[o].result \notin {Running, Cancelled}

\* An Order operation on o was dropped at an await.
WasCancelled(o) == call[o].op \in OrderOps /\ call[o].result = Cancelled

\* The positions of frame c's log that hold a POST to uri.
PostsTo(c, uri) ==
    {i \in 1..Len(c.sent) : c.sent[i].method = "POST" /\ c.sent[i].uri = uri}

PostsOf(c) == {i \in 1..Len(c.sent) : c.sent[i].method = "POST"}

\* A response came back for the request.
Received(r) == r.reply.kind \in {"absent", "bytes", "utf8"}

\* The usable Replay-Nonce the last Client::post of frame c was answered with:
\* None when that call sent nothing, ended at its HEAD, got no response to its
\* POST, or got a response whose header is absent or not UTF-8.
SlotExpected(c) ==
    IF Len(c.sent) = c.base THEN None
    ELSE LET r == c.sent[Len(c.sent)]
         IN  IF r.method = "POST" /\ r.reply.kind = "utf8" THEN r.reply.val ELSE None

\* ---------------------------------------------------------------- claims

\* C1: no nonce value is carried by two POST requests, whatever the operations
\* and however they end, as long as the server issues each value once.
C1_NonceSingleUse == \A n \in BagToSet(used) : CopiesIn(n, used) = 1

\* Three POSTs went out, the last one answered with a problem document.
C1_Witness ==
    /\ BagCardinality(used) >= 3
    /\ \E o \in Orders : Returned(o) /\ call[o].result = ErrApi("badNonce")

\* C2 as stated: once an operation has received a response to a POST, the slot on
\* return equals the Replay-Nonce header of the last response received, and is
\* empty if that response carried none (a header that is not UTF-8 counted as
\* none, a call whose signing fails set aside).
C2_SlotIsLastHeader ==
    \A o \in Orders :
        LET c == call[o]
            got == {i \in 1..Len(c.sent) : Received(c.sent[i])}
        IN  (/\ Returned(o) /\ c.result # Err("Crypto")
             /\ \E i \in got : c.sent[i].method = "POST") =>
                LET h == c.sent[CHOOSE i \in got : \A j \in got : j <= i].reply
                IN  nonce[o] = IF h.kind = "utf8" THEN h.val ELSE None

\* C2 amended: on return the slot holds the Replay-Nonce answering the last POST
\* the operation attempted when that header is valid UTF-8, and is empty when the
\* header is absent or not UTF-8 or when that last attempt got no response.
C2_SlotRefill ==
    \A o \in Orders :
        (Returned(o) /\ call[o].uri # NoStr) => nonce[o] = SlotExpected(call[o])

\* authorizations(): the first fetch was answered with a nonce, the second was
\* lost, and the slot is empty on return.
C2_Witness ==
    \E o \in Orders :
        LET c == call[o]
        IN  /\ Returned(o) /\ c.op = "authorizations"
            /\ Len(c.sent) = 2
            /\ c.sent[1].reply.kind = "utf8"
            /\ c.sent[2].reply = Lost
            /\ nonce[o] = None

\* Order o puts a request on the wire in this step.
Sends(o) == call'[o].pc \in {"head", "post"} /\ call'[o].pc # call[o].pc

C4_EmptySlotRecovery ==
    \A o \in Orders :
        LET c == call[o]
            k == c.base
        IN  (c.uri # NoStr /\ c.taken = None) =>
                /\ Len(c.sent) \in {k + 1, k + 2}
                /\ c.sent[k + 1].method = "HEAD"
                /\ c.sent[k + 1].uri = NewNonceUrl
                /\ Len(c.sent) = k + 2 =>
                      /\ c.sent[k + 2].method = "POST"
                      /\ c.sent[k + 2].uri = c.uri
                      /\ c.sent[k + 1].reply.kind = "utf8"
                      /\ c.sent[k + 2].nonce = c.sent[k + 1].reply.val
                /\ c.sent[k + 1].reply.kind \in {"absent", "bytes"} =>
                      /\ Len(c.sent) = k + 1
                      /\ c.pc = "idle"
                      /\ c.result = Err("no nonce found")

\* refresh() found the slot empty, asked for a nonce and sent it in its POST.
C4_Witness ==
    \E o \in Orders :
        LET c == call[o]
        IN  /\ Returned(o) /\ c.op = "refresh" /\ c.result.ok
            /\ c.entry.nonce = None
            /\ Len(c.sent) = 2
            /\ c.sent[1].method = "HEAD"
            /\ c.sent[2].method = "POST" /\ c.sent[2].nonce = c.sent[1].reply.val

\* The refresh step of the call ended in an error.
RefreshStepFailed(c) ==
    /\ ~c.result.ok
    /\ \/ c.op \in {"refresh", "finalize"}
       \/ c.op = "certificate" /\ c.phase = "refresh" /\ c.parsed = NullState

\* C5: when refresh(), finalize() or the refresh step of certificate() ends in
\* an error, the cached state is the one the call began with.
C5_StateUnchangedOnError ==
    \A o \in Orders :
        (Returned(o) /\ RefreshStepFailed(call[o])) => state[o] = call[o].entry.state

\* refresh() was answered with a problem document.
C5_Witness ==
    \E o \in Orders :
        /\ Returned(o) /\ call[o].op = "refresh"
        /\ call[o].result = ErrApi("badNonce")
        /\ state[o] = call[o].entry.state

\* C6 as stated: an operation cancelled at an await leaves the nonce slot and
\* the cached state as they were before the operation started.
C6_CancelRestoresOrder ==
    \A o \in Orders :
        WasCancelled(o) =>
            /\ nonce[o] = call[o].entry.nonce
            /\ state[o] = call[o].entry.state

\* C6 amended: an operation cancelled at an await leaves the cached state as it
\* was before the operation started, or, for certificate() cancelled while it
\* fetches the chain, as its completed refresh decoded it; the nonce slot is not
\* restored: it is empty when the await was the HEAD or the POST, and holds the
\* usable Replay-Nonce of the response when the await was the body read.
C6_CancelKeepsState ==
    \A o \in Orders :
        LET c == call[o]
        IN  WasCancelled(o) =>
                /\ \/ state[o] = c.entry.state
                   \/ /\ c.op = "certificate" /\ c.phase = "chain"
                      /\ c.parsed # NullState /\ state[o] = c.parsed
                /\ nonce[o] = SlotExpected(c)

\* refresh() was cancelled while its POST was on the wire: the nonce it took is
\* gone from the slot, the state is untouched.
C6_Witness ==
    \E o \in Orders :
        LET c == call[o]
        IN  /\ WasCancelled(o) /\ c.op = "refresh"
            /\ c.entry.nonce # None
            /\ Len(c.sent) = 1 /\ c.sent[1].reply = Pending
            /\ nonce[o] = None
            /\ state[o] = c.entry.state

\* The order status transitions of the state machine.
LegalTransition(a, b) ==
    \/ a = "pending" /\ b = "ready"
    \/ a = "ready" /\ b = "processing"
    \/ a = "processing" /\ b = "valid"
    \/ a \in {"pending", "ready", "processing"} /\ b = "invalid"

\* The statuses one transition leads to from the statuses S, and S itself.
Succ(S) == S \cup {b \in OrderStatus : \E a \in S : LegalTransition(a, b)}

\* b is a, or is reached from a by transitions of the state machine.
Reachable(a, b) == b \in Succ(Succ(Succ(Succ({a}))))

FailedBeforeSend(c) ==
    /\ PostsOf(c) = {}
    /\ c.result \in {Err("Hyper"), Err("no nonce found"), Err("Crypto")}

\* C8: certificate() called with cached status ready or processing polls the
\* server (a POST-as-GET to the order URL) before it decides its result.
C8_PollsOnReadyOrProcessing ==
    \A o \in Orders :
        LET c == call[o]
        IN  (/\ Returned(o) /\ c.op = "certificate"
             /\ c.entry.status \in {"ready", "processing"}
             /\ ~FailedBeforeSend(c)) =>
                \E i \in PostsTo(c, url[o]) : c.sent[i].payload = PostAsGet

\* C9 as stated: with cached status processing, a call of certificate() sends
\* exactly one POST-as-GET to the order URL (a call whose signing fails set aside).
C9_ExactlyOnePoll ==
    \A o \in Orders :
        LET c == call[o]
        IN  (/\ Returned(o) /\ c.op = "certificate" /\ c.entry.status = "processing"
             /\ c.result # Err("Crypto")) =>
                Cardinality(PostsTo(c, url[o])) = 1

\* C9 amended: certificate() sends at most one POST-as-GET to the order URL, and
\* with cached status processing exactly one unless the call fails before that
\* POST is sent (the HEAD newNonce fails or yields no nonce, or signing fails);
\* when the refreshed state is still processing and has no error it returns
\* Ok(None) without a request to a certificate URL; no call sends more than two
\* POSTs.
C9_PollsAtMostOnce ==
    \A o \in Orders :
        LET c == call[o]
            polls == PostsTo(c, url[o])
        IN  c.op = "certificate" =>
                /\ Cardinality(polls) <= 1
                /\ Cardinality(PostsOf(c)) <= 2
                /\ \A i \in polls : c.sent[i].payload = PostAsGet
                /\ (Returned(o) /\ c.entry.status = "processing"
                        /\ ~FailedBeforeSend(c)) => Cardinality(polls) = 1
                /\ (Returned(o) /\ c.parsed # NullState
                        /\ state[o].status = "processing" /\ state[o].error = NoStr) =>
                      /\ c.result = Ok("None")
                      /\ PostsOf(c) = polls

\* certificate() polled once, the order was still processing although it already
\* listed a certificate URL, and the call returned Ok(None).
C9_Witness ==
    \E o \in Orders :
        LET c == call[o]
        IN  /\ Returned(o) /\ c.op = "certificate" /\ c.result = Ok("None")
            /\ c.entry.status = "processing"
            /\ state[o].certificate # NoStr
            /\ Cardinality(PostsTo(c, url[o])) = 1
            /\ Cardinality(PostsOf(c)) = 1

\* certificate() reached its checks: it had nothing to refresh, or its refresh
\* was decoded.
ReachedChecks(c) == c.entry.status # "processing" \/ c.parsed # NullState

FailedBeforeChain(c) ==
    /\ c.result \in {Err("Hyper"), Err("no nonce found"), Err("Crypto")}
    /\ \/ Len(c.sent) = c.base
       \/ c.sent[Len(c.sent)].method = "HEAD"

\* certificate() went on to fetch the chain: after the optional refresh the state
\* had no error, status valid and a certificate URL.
FetchesChain(c) == c.op = "certificate" /\ c.phase = "chain"

\* C11 as stated: a certificate() that finds no error, status valid and a
\* certificate URL sends exactly one POST-as-GET to that URL (a call whose signing
\* fails set aside).
C11_ExactlyOneFetch ==
    \A o \in Orders :
        LET c == call[o]
        IN  (Returned(o) /\ FetchesChain(c) /\ c.result # Err("Crypto")) =>
                Cardinality(PostsTo(c, state[o].certificate)) = 1

\* What certificate() returns for the answer g to its chain fetch.
ChainResult(g) ==
    IF g.status = "4xx"
    THEN IF g.kind = "problem" THEN ErrApi("badNonce")
         ELSE IF g.kind = "none" THEN Err("Hyper") ELSE Err("Other")
    ELSE IF g.kind = "none" THEN Err("Hyper")
    ELSE IF g.kind = "bytes" THEN Err("unable to decode certificate as UTF-8")
    ELSE Ok("Some")

\* C11 amended: a certificate() that finds no error, status valid and a
\* certificate URL sends at most one POST to that URL, a POST-as-GET, and exactly
\* one unless the call fails before it is sent (the HEAD newNonce fails or yields
\* no nonce, or signing fails); on return the slot holds the usable Replay-Nonce
\* of that POST's response, or nothing; the call returns Some(body) for a body
\* that is valid UTF-8 under a status below 400, and an error for a body that is
\* not, for a problem response and for a body that fails to arrive; no step of
\* the fetch changes the cached state.
C11_ChainFetch ==
    /\ [](\A o \in Orders :
            LET c == call[o]
                fetches == PostsTo(c, state[o].certificate)
            IN  FetchesChain(c) =>
                    /\ Cardinality(fetches) <= 1
                    /\ \A i \in fetches : c.sent[i].payload = PostAsGet
                    /\ state[o].error = NoStr /\ state[o].status = "valid"
                    /\ state[o].certificate # NoStr
                    /\ Returned(o) =>
                          /\ FailedBeforeChain(c) \/ Cardinality(fetches) = 1
                          /\ nonce[o] = SlotExpected(c)
                          /\ c.got # NoGot => c.result = ChainResult(c.got)
                          /\ c.result.ok => c.got # NoGot)
    /\ [][\A o \in Orders :
            (FetchesChain(call[o]) /\ call[o].pc # "idle") => state'[o] = state[o]]_vars

\* The chain of a valid order came back as bytes that are not UTF-8: an error,
\* one fetch with the nonce the slot held, the nonce of its response in the slot.
C11_Witness ==
    \E o \in Orders :
        LET c == call[o]
        IN  /\ Returned(o) /\ FetchesChain(c)
            /\ c.entry.status = "valid" /\ c.entry.nonce # None
            /\ c.got = [status |-> "2xx", location |-> NoStr, kind |-> "bytes"]
            /\ c.result = Err("unable to decode certificate as UTF-8")
            /\ Cardinality(PostsTo(c, state[o].certificate)) = 1
            /\ nonce[o] # None
            /\ nonce[o] = c.sent[Len(c.sent)].reply.val

\* The operation on o returned the badNonce problem its POST was answered with.
ReturnedBadNonce(o) == Returned(o) /\ call[o].result = ErrApi("badNonce")

\* C12: an Order operation whose POST is answered with an error status ends there
\* with an error and sends nothing more; when it returns the badNonce problem it
\* has sent that POST once, and the slot holds the Replay-Nonce of that response;
\* when that nonce is usable, the next request of the order is a POST carrying it,
\* not a HEAD newNonce.
C12_BadNonceSurfaces ==
    /\ [](\A o \in Orders :
            LET c == call[o]
            IN  ReturnedBadNonce(o) =>
                    /\ c.sent # <<>>
                    /\ c.sent[Len(c.sent)].method = "POST"
                    /\ c.sent[Len(c.sent)].uri = c.uri
                    /\ Cardinality(PostsTo(c, c.uri)) = 1
                    /\ Received(c.sent[Len(c.sent)])
                    /\ lastReply[o] = c.sent[Len(c.sent)].reply
                    /\ nonce[o] = SlotExpected(c))
    /\ [][\A o \in Orders :
            /\ (call[o].op \in OrderOps /\ call[o].pc = "body"
                    /\ call[o].rsp.status = "4xx") =>
                  /\ call'[o].pc = "idle"
                  /\ ~call'[o].result.ok
                  /\ call'[o].sent = call[o].sent
            /\ (ReturnedBadNonce(o) /\ lastReply[o].kind = "utf8" /\ Sends(o)) =>
                  LET r == call'[o].sent[Len(call'[o].sent)]
                  IN  /\ Len(call'[o].sent) = 1
                      /\ r.method = "POST"
                      /\ r.nonce = lastReply[o].val]_vars

\* set_challenge_ready() was told badNonce with a fresh nonce: it returned the
\* problem after one POST, and the fresh nonce waits in the slot.
C12_Witness ==
    \E o \in Orders :
        LET c == call[o]
        IN  /\ ReturnedBadNonce(o) /\ c.op = "set_challenge_ready"
            /\ c.entry.nonce # None
            /\ Len(c.sent) = 1
            /\ c.sent[1].nonce = c.entry.nonce
            /\ c.sent[1].reply.kind = "utf8"
            /\ nonce[o] = c.sent[1].reply.val
            /\ nonce[o] # c.entry.nonce

\* The nonce the i-th request of frame c carries when it is a POST of the order's
\* own conversation: the slot the call found, or the answer to the request before.
OwnNonce(c, i) ==
    IF i = 1 THEN c.entry.nonce
    ELSE IF c.sent[i - 1].reply.kind = "utf8" THEN c.sent[i - 1].reply.val ELSE None

\* C13: of two orders of one account, interleaved at every await: new_order
\* starts with its own HEAD newNonce and posts the nonce of that HEAD; every POST
\* of an order carries a nonce of its own conversation; a step of one order
\* leaves the other order's slot, state, url and running call as they are; no
\* nonce is sent twice, and no slot holds a nonce that was sent or that the
\* other slot holds.
C13_OrdersIndependent ==
    /\ [](\A o \in TwoOrders :
            LET c == call[o]
            IN  /\ c.op = "new_order" =>
                      /\ c.taken = None
                      /\ Len(c.sent) \in {1, 2}
                      /\ c.sent[1].method = "HEAD"
                /\ \A i \in PostsOf(c) :
                      c.sent[i].nonce # None /\ c.sent[i].nonce = OwnNonce(c, i)
                /\ nonce[o] # None =>
                      /\ ~BagIn(nonce[o], used)
                      /\ \A p \in TwoOrders \ {o} : nonce[p] # nonce[o])
    /\ [](\A n \in BagToSet(used) : CopiesIn(n, used) = 1)
    /\ [][\E o \in TwoOrders : \A p \in TwoOrders \ {o} :
            /\ nonce'[p] = nonce[p]
            /\ state'[p] = state[p]
            /\ url'[p] = url[p]
            /\ call'[p] = call[p]]_vars

\* The first order refreshes while the second is being created: both POSTs are
\* on the wire at once, with different nonces.
C13_Witness ==
    /\ call[1].op = "refresh" /\ call[1].pc = "post"
    /\ call[2].op = "new_order" /\ call[2].pc = "post"
    /\ call[1].sent[Len(call[1].sent)].nonce # call[2].sent[Len(call[2].sent)].nonce
    /\ BagCardinality(used) = 3

\* Every request of the account creation and of the orders' running calls.
AllRequests ==
    {create.sent[i] : i \in 1..Len(create.sent)}
        \cup UNION {{call[o].sent[i] : i \in 1..Len(call[o].sent)} : o \in Orders}

AllPosts == {r \in AllRequests : r.method = "POST"}

\* C14: the protected header of every POST has exactly one of jwk and kid, has
\* the nonce the request spends, and has the URI the POST is sent to as its url;
\* the inner JWS of an external account binding has no nonce and the newAccount
\* URL as its url, and is embedded exactly when a key was given; a GET or HEAD
\* carries no JWS.
C14_HeaderShape ==
    /\ \A r \in AllPosts :
          /\ (r.header.jwk # NoStr) # (r.header.kid # NoStr)
          /\ r.header.nonce # None
          /\ r.header.nonce = r.nonce
          /\ r.header.url = r.uri
          /\ r.eab # NoJws =>
                /\ r.uri = NewAccountUrl
                /\ r.eab.nonce = None
                /\ r.eab.url = NewAccountUrl
                /\ (r.eab.jwk # NoStr) # (r.eab.kid # NoStr)
    /\ \A r \in AllRequests \ AllPosts : r.header = NoJws /\ r.eab = NoJws
    /\ \A i \in PostsOf(create) : (create.sent[i].eab # NoJws) = (create.phase = "eab")

\* An account was created with an external account binding, and an order of it
\* has a POST on the wire.
C14_Witness ==
    /\ create.result.ok /\ create.phase = "eab"
    /\ create.sent[3].eab.url = NewAccountUrl
    /\ create.sent[3].header.url = NewAccountUrl
    /\ \E o \in Orders :
          /\ call[o].op = "refresh" /\ call[o].pc = "post"
          /\ call[o].sent[Len(call[o].sent)].header.url = url[o]

\* The POSTs signed through the Account: those of new_order and of the Orders.
AccountPosts ==
    {r \in UNION {{call[o].sent[i] : i \in 1..Len(call[o].sent)} : o \in Orders} :
        r.method = "POST"}

\* The POSTs to newAccount.
NewAccountPosts == {create.sent[i] : i \in PostsOf(create)}

\* C15 as stated: every request signed through an Account or Order carries kid
\* equal to the account URL, and the newAccount request and any inner JWS of an
\* external account binding carry jwk instead of kid.
C15_KidIffAccount ==
    /\ \A r \in AccountPosts : r.header.kid = account.id /\ r.header.jwk = NoStr
    /\ \A r \in NewAccountPosts :
          /\ r.header.jwk # NoStr /\ r.header.kid = NoStr
          /\ r.eab # NoJws => r.eab.jwk # NoStr /\ r.eab.kid = NoStr

\* C15 amended: every request signed through an Account or Order carries kid
\* equal to the account URL and no jwk; the newAccount request carries jwk and
\* no kid; the inner JWS of an external account binding carries kid equal to the
\* id of the external account key, under HS256, and no jwk.
C15_KeySelection ==
    /\ \A r \in AccountPosts :
          /\ account # NoAccount
          /\ r.header.kid = account.id /\ r.header.jwk = NoStr
          /\ r.header.alg = "ES256"
    /\ \A r \in NewAccountPosts :
          /\ r.header.jwk # NoStr /\ r.header.kid = NoStr
          /\ r.header.alg = "ES256"
          /\ r.eab # NoJws =>
                /\ r.eab.kid = EabId /\ r.eab.jwk = NoStr
                /\ r.eab.alg = "HS256"

\* The newAccount request with a binding is on the wire: jwk outside, the id of
\* the external account key inside.
C15_Witness ==
    /\ create.pc = "post"
    /\ create.sent[3].header.jwk # NoStr
    /\ create.sent[3].eab.kid = EabId

\* C16: account creation sends a GET of the directory, then a HEAD of newNonce,
\* then one POST to newAccount with jwk and the nonce of the HEAD, each only
\* after the one before was answered, and nothing else; a directory body that
\* does not parse ends the call after the GET; the call returns an Account
\* exactly when the POST was answered with a status below 400 and a Location,
\* and the id of the Account, the kid of every later request, is that Location;
\* a problem or a missing Location gives an error and no Account.
C16_CreationOrder ==
    LET c == create
        n == Len(c.sent)
    IN  /\ c.op = "create" =>
              /\ n \in 1..3
              /\ c.sent[1] = [GetReq EXCEPT !.reply = c.sent[1].reply]
              /\ n >= 2 =>
                    /\ c.sent[2] = [HeadReq EXCEPT !.reply = c.sent[2].reply]
                    /\ Received(c.sent[1])
              /\ n = 3 =>
                    /\ c.sent[3].method = "POST" /\ c.sent[3].uri = NewAccountUrl
                    /\ c.sent[3].header.jwk # NoStr /\ c.sent[3].header.kid = NoStr
                    /\ c.sent[2].reply.kind = "utf8"
                    /\ c.sent[3].nonce = c.sent[2].reply.val
              /\ (c.got.status = "dir" /\ c.got.kind # "directory") =>
                    n = 1 /\ c.pc = "idle" /\ ~c.result.ok
              /\ c.result.ok =>
                    /\ n = 3 /\ c.got.status = "2xx"
                    /\ c.got.location \notin {NoStr, "bytes"}
                    /\ account.id = c.got.location
              /\ (c.pc = "idle" /\ c.got.status = "4xx") => ~c.result.ok
              /\ (c.pc = "idle" /\ c.got.status = "2xx"
                      /\ c.got.location \in {NoStr, "bytes"}) =>
                    c.result = Err("failed to get account URL")
              /\ (c.pc = "idle" /\ c.got.status = "2xx"
                      /\ c.got.location \notin {NoStr, "bytes"}) => c.result.ok
        /\ (account # NoAccount) = c.result.ok
        /\ \A r \in AccountPosts : r.header.kid = account.id

\* The account got the second of the account URLs as its Location, and the
\* new_order that followed carries it as kid.
C16_Witness ==
    /\ create.result.ok
    /\ create.got.location = "acct2"
    /\ account.id = "acct2"
    /\ create.sent[3].nonce = create.sent[2].reply.val
    /\ \E o \in Orders :
          /\ call[o].op = "new_order" /\ call[o].pc = "post"
          /\ call[o].sent[2].header.kid = "acct2"

\* The step reads the body of an order response: the answer to new_order,
\* refresh(), finalize() or the refresh of certificate().
ReadsOrderResponse(c) ==
    /\ c.pc = "body"
    /\ \/ c.op \in {"new_order", "refresh", "finalize"}
       \/ c.op = "certificate" /\ c.phase = "refresh"

\* C17: the cached state changes only in the step that decodes the answer to
\* new_order, refresh(), finalize() or the refresh of certificate() as an
\* OrderState, and then becomes that OrderState; every such decoded OrderState is
\* adopted; so no step of authorizations(), challenge(), set_challenge_ready(),
\* key_authorization() or the chain fetch changes it; key_authorization() sends
\* nothing and leaves the nonce slot as it is.
C17_StateIsLastParsed ==
    [][\A o \in Orders :
         /\ state'[o] # state[o] =>
               /\ ReadsOrderResponse(call[o])
               /\ call'[o].parsed # NullState
               /\ state'[o] = call'[o].parsed
         /\ (call'[o].parsed # call[o].parsed /\ call'[o].parsed # NullState) =>
               /\ ReadsOrderResponse(call[o])
               /\ state'[o] = call'[o].parsed
         /\ (call'[o] # call[o] /\ call'[o].op = "key_authorization") =>
               /\ call'[o].sent = <<>> /\ call'[o].pc = "idle"
               /\ nonce'[o] = nonce[o]
               /\ used' = used]_vars

\* key_authorization() on a ready order whose slot holds a nonce: nothing sent,
\* the nonce still there.
C17_Witness ==
    \E o \in Orders :
        LET c == call[o]
        IN  /\ c.op = "key_authorization" /\ c.result.ok
            /\ c.sent = <<>>
            /\ state[o].status = "ready" /\ c.entry.status = "ready"
            /\ nonce[o] # None /\ nonce[o] = c.entry.nonce

\* C18: the account restored from the credentials of an account has the id, the
\* directory urls and the key thumbprint of that account, and its credentials
\* are those credentials again: the same id, key_pkcs8 and urls.
C18_RoundTrip ==
    /\ trip.pc \in {"restored", "again"} =>
          /\ trip.restored.ok
          /\ trip.restored.val.id = trip.orig.val.id
          /\ trip.restored.val.urls = trip.orig.val.urls
          /\ trip.restored.val.key.thumb = trip.orig.val.key.thumb
    /\ trip.pc = "again" =>
          /\ trip.again.id = trip.cred.id
          /\ trip.again.key_pkcs8 = trip.cred.key_pkcs8
          /\ trip.again.urls = trip.cred.urls

\* An account restored from stored credentials whose key document is two bytes
\* long (three characters, unpadded) went through export, restore and export.
C18_Witness ==
    /\ trip.pc = "again"
    /\ trip.input.id = "acct2" /\ trip.input.key_pkcs8 = trip.cred.key_pkcs8
    /\ Len(trip.cred.key_pkcs8) = 3
    /\ Len(trip.orig.val.key.pkcs8_der) = 2
    /\ trip.again = trip.cred

\* The place in the log of frame c of its j-th POST.
PostAt(c, j) ==
    CHOOSE i \in PostsOf(c) : Cardinality({x \in PostsOf(c) : x <= i}) = j

\* C19: authorizations() sends its requests one at a time; its j-th POST is a
\* POST-as-GET to the j-th URL of state.authorizations; the first carries the
\* nonce of the slot, each later one the Replay-Nonce of the answer to the POST
\* before it when that answer has a usable one, and after a HEAD newNonce the
\* nonce of that HEAD otherwise; a call that returns Ok has fetched every URL,
\* one POST each, and one that returns an error has sent nothing after the
\* failing fetch and returns the error alone.
C19_FetchDiscipline ==
    \A o \in Orders :
        LET c == call[o]
            auths == state[o].authorizations
            k == Cardinality(PostsOf(c))
        IN  c.op = "authorizations" =>
                /\ k <= Len(auths)
                /\ \A i \in 1..(Len(c.sent) - 1) : Received(c.sent[i])
                /\ \A j \in 1..k :
                      LET i == PostAt(c, j)
                          r == c.sent[i]
                      IN  /\ r.uri = auths[j] /\ r.payload = PostAsGet
                          /\ r.nonce # None
                          /\ i = 1 => r.nonce = c.entry.nonce
                          /\ i > 1 =>
                                /\ c.sent[i - 1].reply.kind = "utf8"
                                /\ r.nonce = c.sent[i - 1].reply.val
                          /\ (i > 1 /\ c.sent[i - 1].method = "HEAD") =>
                                IF i = 2 THEN c.entry.nonce = None
                                ELSE /\ c.sent[i - 2].method = "POST"
                                     /\ c.sent[i - 2].reply.kind # "utf8"
                /\ (Returned(o) /\ c.result.ok) =>
                      /\ c.result = Ok("vec")
                      /\ k = Len(auths) /\ c.idx = Len(auths)
                      /\ \A i \in 1..Len(c.sent) : Received(c.sent[i])
                /\ (Returned(o) /\ ~c.result.ok) =>
                      /\ c.idx \in 1..Len(auths)
                      /\ k \in {c.idx - 1, c.idx}

\* The first of two fetches succeeded, the second was answered with a problem:
\* the call returned the problem after two POSTs, in list order.
C19_Witness ==
    \E o \in Orders :
        LET c == call[o]
        IN  /\ Returned(o) /\ c.op = "authorizations"
            /\ c.result = ErrApi("badNonce")
            /\ Len(state[o].authorizations) = 2
            /\ Len(c.sent) = 2
            /\ c.sent[1].uri = AuthzUrls[1] /\ c.sent[2].uri = AuthzUrls[2]
            /\ c.sent[2].nonce = c.sent[1].reply.val

\* C20: every POST of authorizations(), challenge(), refresh() and certificate()
\* (its refresh and its chain fetch) has the empty string as payload; every POST
\* of set_challenge_ready() has the empty JSON object, which is not the empty
\* string; every POST of finalize() has the csr payload, which is neither; and
\* the operations of an Order send no other payload.
C20_PayloadKinds ==
    \A o \in Orders :
        LET c == call[o]
        IN  \A i \in PostsOf(c) :
                LET p == c.sent[i].payload
                IN  /\ c.op \in {"authorizations", "challenge", "refresh", "certificate"}
                        => p = ""
                    /\ c.op = "set_challenge_ready" => p = "{}" /\ p # PostAsGet
                    /\ c.op = "finalize" => p = "csr" /\ p \notin {PostAsGet, EmptyObject}
                    /\ c.op \in OrderOps => p \in {"", "{}", "csr"}
                    /\ c.op \in OrderOps \/ c.op = "new_order"

\* set_challenge_ready() returned Ok after a POST whose payload is {}.
C20_Witness ==
    \E o \in Orders :
        LET c == call[o]
        IN  /\ Returned(o) /\ c.op = "set_challenge_ready" /\ c.result.ok
            /\ PostsOf(c) # {}
            /\ \A i \in PostsOf(c) : c.sent[i].payload = "{}"

\* new_order on o has ended: returned, or dropped at an await.
NewOrderEnded(o) ==
    call[o].op = "new_order" /\ call[o].pc = "idle" /\ call[o].result # Running

\* The answer g has a body that decodes as an OrderState under a status below 400.
ParsesAsOrder(g) == g.status = "2xx" /\ g.kind = "order"

\* C21: a new_order that returns Ok has read a status below 400, a body that
\* decodes as an OrderState and a Location; the Order's url is that Location, its
\* state that body and its slot the usable Replay-Nonce of the response (empty
\* when there is none). A problem response returns that problem and a body that
\* does not decode returns an error of its own, whether or not the Location is
\* there; "no order URL found" is returned exactly when the body decoded and the
\* Location is absent or unreadable. After any error, and after a call dropped at
\* an await, there is no Order: no url, no state, an empty slot.
C21_NewOrderResult ==
    \A o \in Orders :
        LET c == call[o]
            g == c.got
        IN  NewOrderEnded(o) =>
                /\ c.result.ok =>
                      /\ ParsesAsOrder(g)
                      /\ g.location \notin {NoStr, "bytes"}
                      /\ url[o] = g.location
                      /\ c.parsed # NullState /\ state[o] = c.parsed
                      /\ c.sent[Len(c.sent)].method = "POST"
                      /\ nonce[o] = SlotExpected(c)
                /\ (g # NoGot /\ ~ParsesAsOrder(g)) =>
                      /\ ~c.result.ok
                      /\ c.result # Err("no order URL found")
                      /\ (g.status = "4xx" /\ g.kind = "problem") =>
                            c.result = ErrApi("badNonce")
                      /\ (g.status = "2xx" /\ g.kind \notin {"none", "order"}) =>
                            c.result = Err("Json")
                /\ c.result = Err("no order URL found") <=>
                      /\ ParsesAsOrder(g)
                      /\ location_from_response(g.location) = NoStr
                /\ ~c.result.ok =>
                      /\ url[o] = NoStr
                      /\ state[o] = NullState
                      /\ nonce[o] = None

\* new_order was answered with a problem and no Location: it returned the
\* problem, not "no order URL found", and there is no Order.
C21_Witness ==
    \E o \in Orders :
        LET c == call[o]
        IN  /\ NewOrderEnded(o)
            /\ c.got = [status |-> "4xx", location |-> NoStr, kind |-> "problem"]
            /\ c.sent[Len(c.sent)].reply.kind = "utf8"
            /\ c.result = ErrApi("badNonce")
            /\ url[o] = NoStr /\ nonce[o] = None

\* The last Client::post of frame c ended in an error before any response to its
\* POST: nothing was sent, or the HEAD newNonce was the last request, or the POST
\* got no response.
FailedSend(c) ==
    /\ c.uri # NoStr /\ c.pc = "idle" /\ ~c.result.ok
    /\ \/ Len(c.sent) = c.base
       \/ c.sent[Len(c.sent)].method = "HEAD"
       \/ c.sent[Len(c.sent)].reply = Lost

\* The error Client::post returns for the way its attempt stopped.
SendError(c) ==
    IF Len(c.sent) = c.base THEN Err("Crypto")
    ELSE LET r == c.sent[Len(c.sent)]
         IN  IF r.reply = Lost THEN Err("Hyper")
             ELSE IF r.reply.kind = "utf8" THEN Err("Crypto")
             ELSE Err("no nonce found")

\* C22: an Order operation that fails before any response to its POST (the HEAD
\* newNonce fails or yields no nonce, signing fails, or the POST gets no
\* response) returns that error and leaves the slot empty, whatever the slot held
\* before; the nonce it took is not in the slot and was sent at most once; no
\* nonce is sent twice; an operation that returns without a call of Client::post
\* leaves the slot as it is; and whenever an order with an empty slot sends a request,
\* that request is a HEAD newNonce, while a POST put on the wire carries the nonce
\* just taken from the slot or the one the HEAD was just answered with.
C22_FailedSendEmptiesSlot ==
    /\ [](\A o \in Orders :
            LET c == call[o]
            IN  (Returned(o) /\ FailedSend(c)) =>
                    /\ c.result = SendError(c)
                    /\ nonce[o] = None
                    /\ c.taken # None =>
                          /\ c.taken < nextNonce
                          /\ CopiesIn(c.taken, used) <= 1)
    /\ [](\A n \in BagToSet(used) : CopiesIn(n, used) = 1 /\ n < nextNonce)
    /\ [][\A o \in Orders :
            /\ (call[o].pc = "idle" /\ call'[o].pc = "idle" /\ call'[o].uri = NoStr) =>
                  nonce'[o] = nonce[o]
            /\ (url[o] # NoStr /\ nonce[o] = None /\ call[o].pc \in {"idle", "body"}
                    /\ Sends(o)) =>
                  LET r == call'[o].sent[Len(call'[o].sent)]
                  IN  r.method = "HEAD" /\ r.uri = NewNonceUrl
            /\ (url[o] # NoStr /\ Sends(o) /\ call'[o].pc = "post") =>
                  LET r == call'[o].sent[Len(call'[o].sent)]
                  IN  /\ r.nonce # None
                      /\ r.nonce = IF call[o].pc = "head" THEN nextNonce ELSE nonce[o]
                      /\ nonce'[o] = None]_vars

\* refresh() took the nonce of the slot and its POST got no response: the slot is
\* empty, and the nonce was sent that once.
C22_Witness ==
    \E o \in Orders :
        LET c == call[o]
        IN  /\ Returned(o) /\ c.op = "refresh" /\ FailedSend(c)
            /\ c.entry.nonce # None /\ c.taken = c.entry.nonce
            /\ Len(c.sent) = 1 /\ c.sent[1].method = "POST"
            /\ c.sent[1].nonce = c.taken /\ c.sent[1].reply = Lost
            /\ c.result = Err("Hyper")
            /\ nonce[o] = None

====
